---------------------------- MODULE Spec2Model ----------------------------
(***************************************************************************)
(* Forest-fire early warning backend (src/5hack/backend): the region grid *)
(* (grid.py), the weather acquisition with its simulated fallback and the *)
(* fire-weather indices (weather.py), the dual-mode risk scorer (model.py) *)
(* and the request handlers that combine them (main.py).                   *)
(*                                                                         *)
(* Numbers are fixed point, one integer per quantity:                      *)
(*   degrees of latitude / longitude      1/1000 degree                    *)
(*   temperature, humidity, rainfall      1/100 of the unit                *)
(*   wind speed                           1/1000 km/h (1/100 m/s * 3.6)    *)
(*   the six indices as returned          1/10   (one decimal)             *)
(*   the raw risk of the rule formula     1/10000                          *)
(*   risk_score as returned               1/10   (one decimal)             *)
(*   probability as returned              1/10000 (four decimals)          *)
(*   feature importances                  1/10000                          *)
(*   a classifier's class probability     1/1000000                        *)
(* round(x, n) is round-half-to-even on the exact decimal value.  Where    *)
(* the exact value lies half way between two neighbours, the binary float  *)
(* of the program may fall on either side, so the last digit of a rounded  *)
(* index can differ by one there; the inputs of SpecScore keep the risk of *)
(* the rule formula away from such ties.                                   *)
(***************************************************************************)
EXTENDS Integers, Sequences, FiniteSets, TLC

--------------------------------------------------------------------------
(* Arithmetic helpers                                                      *)

Max(a, b) == IF a >= b THEN a ELSE b

Min(a, b) == IF a <= b THEN a ELSE b

Abs(a) == IF a < 0 THEN -a ELSE a

\* max(lo, x): the clamp without its upper end
ClampBelowOnly(lo, hi, x) == Max(lo, x)

\* max(lo, min(hi, x)), the clamp idiom of weather.py and model.py
Clamp(lo, hi, x) == Max(lo, Min(hi, x))

\* round(): x counted in units of 1/d of the target unit, to the nearest
\* target unit, ties to the even neighbour
RoundHalfEven(x, d) ==
    LET q == x \div d
        r == x % d
    IN  IF 2 * r < d THEN q
        ELSE IF 2 * r > d THEN q + 1
        ELSE IF q % 2 = 0 THEN q ELSE q + 1

--------------------------------------------------------------------------
(* grid.py                                                                 *)

GRID_ROWS == 3

GRID_COLS == 4

FOREST_REGIONS ==
    [ amazon |->
        [id |-> "amazon", name |-> "Amazon Rainforest",
         bounds |-> [north |-> -2000, south |-> -5000, east |-> -60000, west |-> -65000],
         grid_rows |-> GRID_ROWS, grid_cols |-> GRID_COLS],
      california |->
        [id |-> "california", name |-> "California Forests",
         bounds |-> [north |-> 39000, south |-> 36000, east |-> -118000, west |-> -121000],
         grid_rows |-> GRID_ROWS, grid_cols |-> GRID_COLS],
      australia |->
        [id |-> "australia", name |-> "Australian Bushland",
         bounds |-> [north |-> -32000, south |-> -35000, east |-> 152000, west |-> 149000],
         grid_rows |-> GRID_ROWS, grid_cols |-> GRID_COLS],
      mediterranean |->
        [id |-> "mediterranean", name |-> "Mediterranean Forests",
         bounds |-> [north |-> 40000, south |-> 37000, east |-> -6000, west |-> -10000],
         grid_rows |-> GRID_ROWS, grid_cols |-> GRID_COLS] ]

RegionIds == DOMAIN FOREST_REGIONS

\* f"{region_id}_grid_{row}_{col}"
GridId(region_id, row, col) ==
    region_id \o "_grid_" \o ToString(row) \o "_" \o ToString(col)

\* cos(radians(lat)) in 1/10000, lat in 1/1000 degree: the Taylor polynomial
\* 1 - x^2/2 + x^4/24 with x in 1/10000 radian (pi/180 = 0.0174533)
CosDeg(lat) ==
    LET x  == (Abs(lat) * 1745) \div 10000
        x2 == (x * x) \div 10000
        x4 == (x2 * x2) \div 10000
    IN  10000 - x2 \div 2 + x4 \div 24

\* lat_km * lng_km, in 1/10000 km^2 (the caller rounds it to 1/100 km^2)
calculate_grid_area(bounds) ==
    LET lat_diff   == Abs(bounds.north - bounds.south)
        lng_diff   == Abs(bounds.east - bounds.west)
        avg_lat    == (bounds.north + bounds.south) \div 2
        km_per_lng == (111 * CosDeg(avg_lat)) \div 100        \* 1/100 km per degree
        lat_km     == (lat_diff * 111) \div 10                \* 1/100 km
        lng_km     == (lng_diff * km_per_lng) \div 1000       \* 1/100 km
    IN  lat_km * lng_km

\* GridCell(id=..., ..., area_km2=round(area, 2)) for the cell's bounds
GridCell(region_id, row, col, cell_bounds) ==
    [id         |-> GridId(region_id, row, col),
     region     |-> region_id,
     row        |-> row,
     col        |-> col,
     center_lat |-> (cell_bounds.north + cell_bounds.south) \div 2,
     center_lng |-> (cell_bounds.east + cell_bounds.west) \div 2,
     bounds     |-> cell_bounds,
     area_km2   |-> RoundHalfEven(calculate_grid_area(cell_bounds), 100)]

\* GridCellAt with the rows counted from one: north = north - (row + 1) * lat_step
GridCellAtRowFromOne(region_id, row, col) ==
    LET region   == FOREST_REGIONS[region_id]
        lat_step == (region.bounds.north - region.bounds.south) \div region.grid_rows
        lng_step == (region.bounds.east - region.bounds.west) \div region.grid_cols
        north    == region.bounds.north - ((row + 1) * lat_step)
        west     == region.bounds.west + (col * lng_step)
    IN  GridCell(region_id, row, col,
                 [north |-> north, south |-> north - lat_step,
                  east |-> west + lng_step, west |-> west])

\* the body of the double loop: the cell of (row, col)
GridCellAt(region_id, row, col) ==
    LET region   == FOREST_REGIONS[region_id]
        lat_step == (region.bounds.north - region.bounds.south) \div region.grid_rows
        lng_step == (region.bounds.east - region.bounds.west) \div region.grid_cols
        north    == region.bounds.north - (row * lat_step)
        south    == north - lat_step
        west     == region.bounds.west + (col * lng_step)
        east     == west + lng_step
    IN  GridCell(region_id, row, col,
                 [north |-> north, south |-> south, east |-> east, west |-> west])

\* raises ValueError for an unregistered region (the empty result, with raised
\* set), else the cells appended row by row, column by column
generate_grids_for_region(region_id) ==
    IF region_id \notin RegionIds
    THEN [raised |-> TRUE, grids |-> << >>]
    ELSE LET region == FOREST_REGIONS[region_id]
         IN  [raised |-> FALSE,
              grids  |-> [k \in 1..(region.grid_rows * region.grid_cols) |->
                            GridCellAt(region_id,
                                       (k - 1) \div region.grid_cols,
                                       (k - 1) % region.grid_cols)]]

--------------------------------------------------------------------------
(* weather.py                                                              *)

\* the absent value (Python's None)
None == [t |-> "none", v |-> 0]

\* a JSON value of a response body: a number, null, a string, or a key that
\* is missing
Num(v) == [t |-> "num", v |-> v]

JsonNull == [t |-> "null", v |-> 0]

JsonStr == [t |-> "str", v |-> 0]

Missing == [t |-> "missing", v |-> 0]

FWI_RANGES ==
    [ffmc |-> [min |-> 40, max |-> 96],
     dmc  |-> [min |-> 1,  max |-> 30],
     dc   |-> [min |-> 5,  max |-> 400],
     isi  |-> [min |-> 0,  max |-> 15],
     bui  |-> [min |-> 1,  max |-> 40],
     fwi  |-> [min |-> 0,  max |-> 25]]

\* The process-wide generator of the random module.  Its state is a number
\* below RngMod; random() steps it and returns state / RngMod.
RngMod == 64

\* random.seed left out: the generator goes on from where it is
random_seed_skipped(rng, seed) == rng

\* random.seed(seed): the generator's state becomes a function of the seed alone
random_seed(rng, seed) == seed % RngMod

\* one step of the generator
random_next(rng) == (21 * rng + 11) % RngMod

\* random.uniform(a, b) = a + (b - a) * random(), for the state rng reached by
\* the step that drew it
uniform(a, b, rng) == a + ((b - a) * rng) \div RngMod

\* hash(grid_id): Python salts the hash of a string per process (hashSeed);
\* within one process it is a function of the string.  GridOrdinal numbers the
\* strings that are cell ids.
RegionOrder == <<"amazon", "california", "australia", "mediterranean">>

CellsPerRegion == GRID_ROWS * GRID_COLS

AllGridIds ==
    {GridId(reg, row, col) : reg \in RegionIds, row \in 0..(GRID_ROWS - 1),
                             col \in 0..(GRID_COLS - 1)}

GridOrdinal ==
    [id \in AllGridIds |->
        CHOOSE n \in 1..(Len(RegionOrder) * CellsPerRegion) :
            id = GridId(RegionOrder[(n - 1) \div CellsPerRegion + 1],
                        ((n - 1) % CellsPerRegion) \div GRID_COLS,
                        (n - 1) % GRID_COLS)]

hash(grid_id, hashSeed) ==
    (GridOrdinal[grid_id] * (7919 + 2 * hashSeed) + 104729 * hashSeed) % 1000003

\* rain drawn whatever the humidity
rainfall_always(humidity, rng) == uniform(0, 500, rng)

\* random.uniform(0, 5) if humidity > 60 else 0
rainfall_for(humidity, rng) == IF humidity > 6000 THEN uniform(0, 500, rng) ELSE 0

\* generate_simulated_weather: the observation and the generator's state after it
generate_simulated_weather(lat, lng, grid_id, rng, hashSeed) ==
    LET seed        == hash(grid_id, hashSeed) % 10000
        s0          == random_seed(rng, seed)
        \* lat_factor = 1 - |lat|/90 ; base_temp = 20 + lat_factor * 20
        base_temp   == 2000 + (2000 * (90000 - Abs(lat))) \div 90000
        s1          == random_next(s0)
        temperature == Clamp(1500, 4500, base_temp + uniform(-500, 1000, s1))
        s2          == random_next(s1)
        humidity    == Clamp(2000, 9500,
                             9000 - (temperature - 2000) * 2 + uniform(-1000, 1000, s2))
        s3          == random_next(s2)
        wind_speed  == uniform(5000, 25000, s3)
        s4          == IF humidity > 6000 THEN random_next(s3) ELSE s3
        rainfall    == rainfall_for(humidity, s4)
    IN  [weather |->
            [temperature |-> RoundHalfEven(temperature, 10) * 10,
             humidity    |-> RoundHalfEven(humidity, 10) * 10,
             wind_speed  |-> RoundHalfEven(wind_speed, 100) * 100,
             rainfall    |-> RoundHalfEven(rainfall, 10) * 10,
             source      |-> "simulated"],
         rng |-> s4]

\* max(0, min(25, (isi * bui) ** 0.5)) rounded to one decimal, isi and bui
\* in 1/100000.  isi * bui = H * 10^6 + R is computed in three-digit limbs;
\* 10 * sqrt(x) >= n - 1/2  iff  H >= 25 * (2n - 1)^2.
SqrtTenths(isi, bui) ==
    LET I1 == isi \div 1000
        I0 == isi % 1000
        B1 == bui \div 1000
        B0 == bui % 1000
        Q  == I1 * B0 + I0 * B1
        T  == (Q % 1000) * 1000 + I0 * B0
        H  == I1 * B1 + Q \div 1000 + T \div 1000000
        R  == T % 1000000
        top == 250
        AtLeastHalfBelow(n) == n = 0 \/ H >= 25 * (2 * n - 1) * (2 * n - 1)
        k  == CHOOSE n \in 0..top :
                 /\ AtLeastHalfBelow(n)
                 /\ (n = top \/ ~AtLeastHalfBelow(n + 1))
        tie == k > 0 /\ H = 25 * (2 * k - 1) * (2 * k - 1) /\ R = 0
    IN  IF tie /\ k % 2 = 1 THEN k - 1 ELSE k

\* generate_fire_weather_indices on numeric inputs (centi-units); the indices
\* in tenths
generate_fire_weather_indices(weather) ==
    LET temp     == weather.temperature
        humidity == weather.humidity
        wind     == weather.wind_speed
        rain     == weather.rainfall
        \* 1/1000
        ffmc_base == 60000 + (temp - 2500) * 15 - (humidity - 5000) * 3
        ffmc == Clamp(40000, 96000, ffmc_base - rain * 30)
        dmc  == Clamp(1000, 30000, 10000 + (temp - 2500) * 5 - humidity)
        dc   == Clamp(5000, 400000, 150000 + (temp - 2500) * 50 - rain * 100)
        \* 1/100000
        isi  == Clamp(0, 1500000, (ffmc - 60000) * 15 + wind * 20)
        bui  == Clamp(100000, 4000000, dmc * 80 + dc * 2)
    IN  [ffmc |-> RoundHalfEven(ffmc, 100),
         dmc  |-> RoundHalfEven(dmc, 100),
         dc   |-> RoundHalfEven(dc, 100),
         isi  |-> RoundHalfEven(isi, 10000),
         bui  |-> RoundHalfEven(bui, 10000),
         fwi  |-> SqrtTenths(isi, bui)]

\* What the live service can answer to one GET.  kind "error" is a raised
\* exception (connection failure, timeout); otherwise status_code and a body:
\* parses says whether response.json() returns, and each field holds the JSON
\* value found under main.temp, main.humidity, wind.speed and rain.1h.
Response(kind, status_code, parses, temp, humidity, speed, rain1h) ==
    [kind |-> kind, status_code |-> status_code, parses |-> parses,
     temp |-> temp, humidity |-> humidity, speed |-> speed, rain1h |-> rain1h]

NoResponse == Response("none", 0, FALSE, Missing, Missing, Missing, Missing)

\* fetch_weather_from_api: without a key it returns None at once; with one,
\* this is its result once the GET has returned or raised.  ok = FALSE is the
\* None result.  A missing key raises KeyError and speed * 3.6 on a
\* non-number raises TypeError, both inside the try; temp, humidity and rain
\* are copied as they are.
fetch_weather_from_api(key, response) ==
    LET failed == [ok |-> FALSE, temperature |-> Missing, humidity |-> Missing,
                   wind_speed |-> Missing, rainfall |-> Missing, source |-> "none"]
    IN  IF ~key THEN failed
        ELSE IF response.kind = "error" THEN failed
        ELSE IF response.status_code # 200 THEN failed
        ELSE IF ~response.parses THEN failed
        ELSE IF response.temp = Missing \/ response.humidity = Missing THEN failed
        ELSE IF response.speed.t # "num" THEN failed
        ELSE [ok          |-> TRUE,
              temperature |-> response.temp,
              humidity    |-> response.humidity,
              wind_speed  |-> Num(response.speed.v * 36),   \* m/s to km/h
              rainfall    |-> IF response.rain1h.t \in {"missing", "null"}
                                 \/ response.rain1h = Num(0)
                              THEN Num(0) ELSE response.rain1h,
              source      |-> "openweather_api"]

\* return {**weather, **fwi_indices, "lat": lat, "lng": lng, "grid_id": grid_id}
merged_weather(weather, fwi_indices, lat, lng, grid_id) ==
    [temperature |-> weather.temperature,
     humidity    |-> weather.humidity,
     wind_speed  |-> weather.wind_speed,
     rainfall    |-> weather.rainfall,
     source      |-> weather.source,
     ffmc |-> fwi_indices.ffmc, dmc |-> fwi_indices.dmc,
     dc   |-> fwi_indices.dc,   isi |-> fwi_indices.isi,
     bui  |-> fwi_indices.bui,  fwi |-> fwi_indices.fwi,
     lat |-> lat, lng |-> lng, grid_id |-> grid_id]

\* fwi_indices = generate_fire_weather_indices(weather), then the merge
with_indices(weather, lat, lng, grid_id, rng) ==
    [raised |-> FALSE, rng |-> rng,
     weather |-> merged_weather(weather, generate_fire_weather_indices(weather),
                                lat, lng, grid_id)]

\* weather = generate_simulated_weather(...) when the fetch returned None
with_simulated(sim, lat, lng, grid_id) ==
    with_indices(sim.weather, lat, lng, grid_id, sim.rng)

\* The part of get_weather_for_grid after the fetch: simulate when the fetch
\* returned None, derive the indices, merge.  raised: the arithmetic of
\* generate_fire_weather_indices met a value that is not a number (TypeError).
weather_after_fetch(lat, lng, grid_id, fetched, rng, hashSeed) ==
    IF ~fetched.ok
    THEN with_simulated(generate_simulated_weather(lat, lng, grid_id, rng, hashSeed),
                        lat, lng, grid_id)
    ELSE IF ~(/\ fetched.temperature.t = "num"
              /\ fetched.humidity.t = "num"
              /\ fetched.rainfall.t = "num")
    THEN [raised |-> TRUE, rng |-> rng,
          weather |-> [source |-> fetched.source, grid_id |-> grid_id]]
    ELSE with_indices([temperature |-> fetched.temperature.v,
                       humidity    |-> fetched.humidity.v,
                       wind_speed  |-> fetched.wind_speed.v,
                       rainfall    |-> fetched.rainfall.v,
                       source      |-> fetched.source],
                      lat, lng, grid_id, rng)

--------------------------------------------------------------------------
(* model.py                                                                *)

FEATURE_COLUMNS ==
    <<"Temperature", "RH", "Ws", "Rain", "FFMC", "DMC", "DC", "ISI", "BUI", "FWI">>

RISK_THRESHOLDS == [low |-> <<0, 33>>, medium |-> <<34, 66>>, high |-> <<67, 100>>]

\* the importances of the fallback branch, in 1/10000, in FEATURE_COLUMNS order
FALLBACK_IMPORTANCE == <<1800, 1500, 1200, 1000, 1500, 800, 700, 600, 500, 400>>

\* weather_data.get(key, default)
Get(weather_data, key, default) ==
    IF key \in DOMAIN weather_data THEN weather_data[key] ELSE default

\* Objects an artifact file can unpickle to.  A classifier is opaque: proba is
\* what its predict_proba answers (one entry per class, in 1/1000000) and
\* importances its feature_importances_ (in 1/100000).
NoneObj == [kind |-> "none", proba |-> << >>, importances |-> << >>]

ScalerObj == [kind |-> "scaler", proba |-> << >>, importances |-> << >>]

MetadataObj == [kind |-> "metadata", proba |-> << >>, importances |-> << >>]

Classifier(proba, importances) ==
    [kind |-> "classifier", proba |-> proba, importances |-> importances]

\* An artifact file: whether it exists, whether loading it returns (or
\* raises), and the object it holds.
File(exists, loads, obj) == [exists |-> exists, loads |-> loads, obj |-> obj]

AbsentFile == File(FALSE, FALSE, NoneObj)

\* _load_model with self.is_loaded = True ahead of the metadata: a metadata
\* file that does not load leaves the flag set
load_model_flag_early(files) ==
    LET fresh == [model |-> NoneObj, scaler |-> NoneObj, metadata |-> NoneObj,
                  is_loaded |-> FALSE]
    IN  IF ~(files.model.exists /\ files.scaler.exists) THEN fresh
        ELSE IF ~files.model.loads THEN fresh
        ELSE IF ~files.scaler.loads THEN [fresh EXCEPT !.model = files.model.obj]
        ELSE [model     |-> files.model.obj,
              scaler    |-> files.scaler.obj,
              metadata  |-> IF files.metadata.exists /\ files.metadata.loads
                            THEN files.metadata.obj ELSE NoneObj,
              is_loaded |-> TRUE]

\* FireRiskModel.__init__ followed by _load_model on the given files
load_model(files) ==
    LET fresh == [model |-> NoneObj, scaler |-> NoneObj, metadata |-> NoneObj,
                  is_loaded |-> FALSE]
    IN  IF ~(files.model.exists /\ files.scaler.exists) THEN fresh
        ELSE IF ~files.model.loads THEN fresh
        ELSE IF ~files.scaler.loads THEN [fresh EXCEPT !.model = files.model.obj]
        ELSE IF files.metadata.exists /\ ~files.metadata.loads
             THEN [fresh EXCEPT !.model = files.model.obj, !.scaler = files.scaler.obj]
        ELSE [model     |-> files.model.obj,
              scaler    |-> files.scaler.obj,
              metadata  |-> IF files.metadata.exists THEN files.metadata.obj ELSE NoneObj,
              is_loaded |-> TRUE]

\* _weather_to_features: the ten features in FEATURE_COLUMNS order, a missing
\* one replaced by its default
weather_to_features(weather_data) ==
    << Get(weather_data, "temperature", 2500), Get(weather_data, "humidity", 5000),
       Get(weather_data, "wind_speed", 10000), Get(weather_data, "rainfall", 0),
       Get(weather_data, "ffmc", 700), Get(weather_data, "dmc", 100),
       Get(weather_data, "dc", 1000),  Get(weather_data, "isi", 50),
       Get(weather_data, "bui", 150),  Get(weather_data, "fwi", 100) >>

\* the weighted formula with the rain term added instead of subtracted
weighted_risk_rain_added(temp, humidity, wind, fwi, rain) ==
    (temp - 2000) * 200 + (8000 - humidity) * 50 + wind * 15 + fwi * 3000 + rain * 1000

\* the simple weighted formula of _calculate_fallback_risk, in 1/10000
weighted_risk(temp, humidity, wind, fwi, rain) ==
    (temp - 2000) * 200 + (8000 - humidity) * 50 + wind * 15 + fwi * 3000 - rain * 1000

\* max(0, risk): the normalisation without its upper end
normalize_risk_uncapped(risk) == Max(0, risk)

\* risk = max(0, min(100, risk)), in 1/10000
normalize_risk(risk) == Max(0, Min(1000000, risk))

\* _calculate_fallback_risk, in 1/10000
calculate_fallback_risk(weather_data) ==
    normalize_risk(weighted_risk(Get(weather_data, "temperature", 2500),
                                 Get(weather_data, "humidity", 5000),
                                 Get(weather_data, "wind_speed", 10000),
                                 Get(weather_data, "fwi", 100),
                                 Get(weather_data, "rainfall", 0)))

\* the bands read from their lower ends: High from 67, Medium from 34
risk_category_from_minimum(risk_score) ==
    IF risk_score >= RISK_THRESHOLDS.high[1] * 10 THEN "High"
    ELSE IF risk_score >= RISK_THRESHOLDS.medium[1] * 10 THEN "Medium"
    ELSE "Low"

\* the category of a rounded score (in tenths)
risk_category(risk_score) ==
    IF risk_score <= RISK_THRESHOLDS.low[2] * 10 THEN "Low"
    ELSE IF risk_score <= RISK_THRESHOLDS.medium[2] * 10 THEN "Medium"
    ELSE "High"

\* the scorer-mode tag
model_type(self) == IF self.is_loaded THEN "Random Forest" ELSE "Rule-based Fallback"

\* FireRiskModel.predict.  branch records which arm computed the result;
\* raised: self.scaler.transform on a scaler that is None (AttributeError).
predict(self, weather_data) ==
    LET use_model == self.is_loaded /\ self.model # NoneObj
        features  == weather_to_features(weather_data)
        proba     == self.model.proba
        \* 1/1000000
        fire_probability ==
            IF use_model
            THEN (IF Len(proba) > 1 THEN proba[2] ELSE proba[1])
            ELSE calculate_fallback_risk(weather_data)
        \* 1/10000: fire_probability * 100, or the rule's risk itself
        risk_score == fire_probability
        importance == IF use_model
                      THEN [i \in 1..Len(FEATURE_COLUMNS) |->
                               RoundHalfEven(self.model.importances[i], 10)]
                      ELSE FALLBACK_IMPORTANCE
        rounded == RoundHalfEven(risk_score, 1000)
    IN  IF use_model /\ self.scaler = NoneObj
        THEN [raised |-> TRUE, branch |-> "model", risk_score |-> 0,
              risk_category |-> "none", probability |-> 0,
              feature_importance |-> << >>, model_type |-> "none"]
        ELSE [raised |-> FALSE,
              branch |-> IF use_model THEN "model" ELSE "fallback",
              risk_score |-> rounded,
              risk_category |-> risk_category(rounded),
              probability |-> RoundHalfEven(fire_probability, 100),
              feature_importance |-> importance,
              model_type |-> model_type(self)]

--------------------------------------------------------------------------
(* model.py: explain_prediction                                            *)

Factor(name, value, impact) == [factor |-> name, value |-> value, impact |-> impact]

\* the position of entry i when the items are sorted ascending and the list
\* is then reversed: equal values come out in the reverse of their order
SortedPositionReversed(values, i) ==
    1 + Cardinality({j \in 1..Len(values) : values[j] > values[i]})
      + Cardinality({j \in (i + 1)..Len(values) : values[j] = values[i]})

\* the position (1 = first) of entry i in sorted(items, key = value, reverse =
\* True): Python's sort is stable, so equal values keep their order
SortedPosition(values, i) ==
    1 + Cardinality({j \in 1..Len(values) : values[j] > values[i]})
      + Cardinality({j \in 1..(i - 1) : values[j] = values[i]})

\* sorted(importance.items(), key=lambda x: x[1], reverse=True)[:5]
top_features(importance) ==
    [k \in 1..Min(5, Len(importance)) |->
        LET i == CHOOSE j \in 1..Len(importance) : SortedPosition(importance, j) = k
        IN  <<FEATURE_COLUMNS[i], importance[i]>>]

\* _generate_summary: the message and the count it prints
generate_summary(category, factors) ==
    LET critical_count == Cardinality({k \in 1..Len(factors) : factors[k].impact = "critical"})
    IN  IF category = "High" THEN [message |-> "HIGH RISK", critical |-> critical_count]
        ELSE IF category = "Medium" THEN [message |-> "MEDIUM RISK", critical |-> 0]
        ELSE [message |-> "LOW RISK", critical |-> 0]

\* the temperature rule with 35 itself taken as critical
temperature_factors_from_35(temp) ==
    IF temp >= 3500 THEN <<Factor("High Temperature", temp, "critical")>>
    ELSE IF temp > 3000 THEN <<Factor("Elevated Temperature", temp, "high")>>
    ELSE << >>

\* if temp > 35: ... elif temp > 30: ...
temperature_factors(temp) ==
    IF temp > 3500 THEN <<Factor("High Temperature", temp, "critical")>>
    ELSE IF temp > 3000 THEN <<Factor("Elevated Temperature", temp, "high")>>
    ELSE << >>

explain_prediction(weather_data, prediction) ==
    LET temp     == Get(weather_data, "temperature", 2500)
        humidity == Get(weather_data, "humidity", 5000)
        wind     == Get(weather_data, "wind_speed", 10000)
        rain     == Get(weather_data, "rainfall", 0)
        fwi      == Get(weather_data, "fwi", 100)
        f_temp == temperature_factors(temp)
        f_hum  == IF humidity < 3000 THEN <<Factor("Very Low Humidity", humidity, "critical")>>
                  ELSE IF humidity < 5000 THEN <<Factor("Low Humidity", humidity, "moderate")>>
                  ELSE << >>
        f_wind == IF wind > 20000 THEN <<Factor("High Wind Speed", wind, "critical")>>
                  ELSE IF wind > 15000 THEN <<Factor("Moderate Wind", wind, "moderate")>>
                  ELSE << >>
        f_rain == IF rain > 500 THEN <<Factor("Recent Rainfall", rain, "protective")>>
                  ELSE IF rain < 100 THEN <<Factor("No Recent Rain", rain, "moderate")>>
                  ELSE << >>
        f_fwi  == IF fwi > 150 THEN <<Factor("High Fire Weather Index", fwi, "critical")>>
                  ELSE << >>
        factors == f_temp \o f_hum \o f_wind \o f_rain \o f_fwi
    IN  [summary |-> generate_summary(prediction.risk_category, factors),
         contributing_factors |-> factors,
         top_features |-> top_features(prediction.feature_importance)]

--------------------------------------------------------------------------
(* main.py: what the handlers compute                                      *)

\* the membership test left out
region_unchecked(region_id) == TRUE

\* if region_id not in FOREST_REGIONS
region_registered(region_id) == region_id \in RegionIds

\* the lookup that falls back on the first cell when no id matches
find_grid_or_first(grids, grid_id) ==
    LET found == {k \in 1..Len(grids) : grids[k].id = grid_id}
    IN  IF found = {} THEN 1 ELSE CHOOSE j \in found : \A i \in found : j <= i

\* next((g for g in grids if g.id == grid_id), None): the place of the first
\* cell with this id, 0 for None
find_grid(grids, grid_id) ==
    LET found == {k \in 1..Len(grids) : grids[k].id = grid_id}
    IN  IF found = {} THEN 0 ELSE CHOOSE j \in found : \A i \in found : j <= i

\* the dict predict_for_grid returns
GridPrediction(grid, weather, prediction) ==
    [grid_id |-> grid.id, row |-> grid.row, col |-> grid.col,
     center |-> [lat |-> grid.center_lat, lng |-> grid.center_lng],
     bounds |-> grid.bounds, area_km2 |-> grid.area_km2,
     risk_score |-> prediction.risk_score,
     risk_category |-> prediction.risk_category,
     probability |-> prediction.probability,
     weather |-> weather,
     model_type |-> prediction.model_type]

RECURSIVE SumSeq(_)
SumSeq(q) == IF q = << >> THEN 0 ELSE Head(q) + SumSeq(Tail(q))

MaxSeq(q) == CHOOSE x \in {q[k] : k \in 1..Len(q)} : \A k \in 1..Len(q) : q[k] <= x

MinSeq(q) == CHOOSE x \in {q[k] : k \in 1..Len(q)} : \A k \in 1..Len(q) : q[k] >= x

Count(q, x) == Cardinality({k \in 1..Len(q) : q[k] = x})

NoSummary ==
    [total_grids |-> 0, average_risk |-> 0, max_risk |-> 0, min_risk |-> 0,
     high_risk_count |-> 0, medium_risk_count |-> 0, low_risk_count |-> 0,
     data_source |-> [real |-> 0, simulated |-> 0], alert_level |-> "none"]

\* the tag looked up in the result itself, not in its weather
source_of_result(prediction) == Get(prediction, "source", "unknown")

\* p["weather"].get("source", "unknown")
source_of(prediction) == Get(prediction.weather, "source", "unknown")

\* CRITICAL only above three High cells
alert_level_above_three(high) ==
    IF high > 3 THEN "CRITICAL" ELSE IF high >= 1 THEN "WARNING" ELSE "NORMAL"

\* "CRITICAL" if categories.count("High") >= 3 else ("WARNING" if ... >= 1
\* else "NORMAL")
alert_level(high) ==
    IF high >= 3 THEN "CRITICAL" ELSE IF high >= 1 THEN "WARNING" ELSE "NORMAL"

\* the summary of predict_fire_risk (scores in tenths)
summary_of(predictions) ==
    LET risk_scores == [k \in 1..Len(predictions) |-> predictions[k].risk_score]
        categories  == [k \in 1..Len(predictions) |-> predictions[k].risk_category]
        sources     == [k \in 1..Len(predictions) |-> source_of(predictions[k])]
    IN  [total_grids |-> Len(predictions),
         average_risk |-> RoundHalfEven(SumSeq(risk_scores), Len(risk_scores)),
         max_risk |-> MaxSeq(risk_scores),
         min_risk |-> MinSeq(risk_scores),
         high_risk_count |-> Count(categories, "High"),
         medium_risk_count |-> Count(categories, "Medium"),
         low_risk_count |-> Count(categories, "Low"),
         data_source |-> [real |-> Count(sources, "openweather_api"),
                          simulated |-> Count(sources, "simulated")],
         alert_level |-> alert_level(Count(categories, "High"))]

--------------------------------------------------------------------------
(* Bounds of the model                                                     *)

\* requests the process receives in one behaviour
MaxRequests == 2

\* how many older outstanding GETs a response may overtake
MaxOvertake == 1

\* salts of the string hash the process may have been started with: 0..MaxHashSeed
MaxHashSeed == 1

\* GETs that may be outstanding at once
MaxOutstanding == 13

--------------------------------------------------------------------------
(* The environment                                                         *)

\* classifiers the training script may have saved
TrainedClassifier ==
    Classifier(<<335510, 664490>>,
               <<21034, 17466, 9012, 9008, 15555, 7005, 6920, 5000, 5000, 4000>>)

OneClassClassifier ==
    Classifier(<<1000000>>,
               <<10000, 10000, 10000, 10000, 10000, 10000, 10000, 10000, 10000, 10000>>)

GoodFiles(clf) ==
    [model |-> File(TRUE, TRUE, clf), scaler |-> File(TRUE, TRUE, ScalerObj),
     metadata |-> File(TRUE, TRUE, MetadataObj)]

NoFiles == [model |-> AbsentFile, scaler |-> AbsentFile, metadata |-> AbsentFile]

\* states of the models directory when the process first looks at it
ArtifactStates ==
    { NoFiles,
      [GoodFiles(TrainedClassifier) EXCEPT !.model = AbsentFile],
      [GoodFiles(TrainedClassifier) EXCEPT !.scaler = AbsentFile],
      [GoodFiles(TrainedClassifier) EXCEPT !.model = File(TRUE, FALSE, NoneObj)],
      [GoodFiles(TrainedClassifier) EXCEPT !.scaler = File(TRUE, FALSE, NoneObj)],
      [GoodFiles(TrainedClassifier) EXCEPT !.metadata = File(TRUE, FALSE, NoneObj)],
      [GoodFiles(TrainedClassifier) EXCEPT !.metadata = AbsentFile],
      GoodFiles(TrainedClassifier),
      GoodFiles(OneClassClassifier) }

\* The live service.  "nokey": OPENWEATHER_API_KEY is empty, no GET is sent.
\* Otherwise what it answers to the GET numbered seq for (lat, lng):
\*   "down"      every GET fails, in one of the four ways
\*   "up"        every GET is answered 200 with a well-formed body
\*   "flaky"     every other GET fails
\*   "malformed" 200 bodies with null, non-numeric or missing values among
\*               well-formed ones
ServiceStates == {"nokey", "down", "up", "flaky", "malformed"}

FailedResponse(seq) ==
    CASE seq % 4 = 0 -> Response("error", 0, FALSE, Missing, Missing, Missing, Missing)
      [] seq % 4 = 1 -> Response("http", 500, FALSE, Missing, Missing, Missing, Missing)
      [] seq % 4 = 2 -> Response("http", 401, TRUE, Missing, Missing, Missing, Missing)
      [] OTHER       -> Response("http", 200, FALSE, Missing, Missing, Missing, Missing)

\* a well-formed body: hotter and drier towards the equator and the west
LiveBody(lat, lng) ==
    Response("http", 200, TRUE,
             Num(4106 - (Abs(lat) * 4) \div 10),
             Num(1500 + ((lng % 5000) * 12) \div 10),
             Num(313 + ((Abs(lat) % 1000) * 7) \div 10),
             IF lng % 2000 < 1000 THEN Missing ELSE Num(120))

MalformedBody(seq, lat, lng) ==
    CASE seq % 5 = 3 -> [LiveBody(lat, lng) EXCEPT !.temp = JsonNull]
      [] seq % 5 = 4 -> [LiveBody(lat, lng) EXCEPT !.rain1h = JsonStr]
      [] seq % 5 = 0 -> [LiveBody(lat, lng) EXCEPT !.speed = JsonNull]
      [] seq % 5 = 1 -> [LiveBody(lat, lng) EXCEPT !.temp = Missing, !.humidity = Missing]
      [] OTHER       -> LiveBody(lat, lng)

ServiceAnswer(svc, seq, lat, lng) ==
    CASE svc = "down"      -> FailedResponse(seq)
      [] svc = "up"        -> LiveBody(lat, lng)
      [] svc = "flaky"     -> IF seq % 2 = 1 THEN FailedResponse(seq \div 2)
                              ELSE LiveBody(lat, lng)
      [] svc = "malformed" -> MalformedBody(seq, lat, lng)
      [] OTHER             -> NoResponse

\* what requests may name
PredictInputs == {"amazon", "atlantis"}

ExplainInputs ==
    { <<"amazon", "amazon_grid_0_0">>, <<"amazon", "amazon_grid_2_3">>,
      <<"amazon", "amazon_grid_9_9">>, <<"amazon", "california_grid_1_1">>,
      <<"california", "california_grid_1_1">>, <<"atlantis", "amazon_grid_0_0">> }

GridsInputs == RegionIds \cup {"atlantis"}

--------------------------------------------------------------------------
(* State                                                                   *)

VARIABLES
    service,         \* the live service's condition (and whether a key is set)
    hashSeed,        \* the salt of this process's string hash
    files,           \* the models directory
    model_instance,  \* model._model_instance
    loadCount,       \* how many times the constructor (and _load_model) has run
    rng,             \* the state of the shared random generator
    reqs,            \* the requests received so far, in arrival order
    gets,            \* GETs sent to the live service so far
    sc               \* the scoring pipeline run on its own (SpecScore)

vars == <<service, hashSeed, files, model_instance, loadCount, rng, reqs, gets, sc>>

\* if not OPENWEATHER_API_KEY
apiKey == service # "nokey"

\* model._model_instance = None
NoInstance ==
    [created |-> FALSE, model |-> NoneObj, scaler |-> NoneObj, metadata |-> NoneObj,
     is_loaded |-> FALSE, loaded_from |-> NoFiles]

\* FireRiskModel(): the constructor runs _load_model.  loaded_from records the
\* files it looked at.
FireRiskModel(fs) ==
    LET m == load_model(fs)
    IN  [created |-> TRUE, model |-> m.model, scaler |-> m.scaler,
         metadata |-> m.metadata, is_loaded |-> m.is_loaded, loaded_from |-> fs]

\* get_model without the test for None: a new instance at every call
get_model_always_new(instance, fs) ==
    [instance |-> FireRiskModel(fs), constructed |-> TRUE]

\* get_model(): the instance it returns and leaves in the global, and whether
\* it ran the constructor
get_model(instance, fs) ==
    IF ~instance.created
    THEN [instance |-> FireRiskModel(fs), constructed |-> TRUE]
    ELSE [instance |-> instance, constructed |-> FALSE]

\* the effect of one get_model() call on the globals
GetModelEffect ==
    LET got == get_model(model_instance, files)
    IN  /\ model_instance' = got.instance
        /\ loadCount' = IF got.constructed THEN loadCount + 1 ELSE loadCount

--------------------------------------------------------------------------
(* Requests and the per-cell tasks                                         *)

NoResult == [grid_id |-> "none"]

\* A per-cell unit of work: waiting (in the await of the GET), done, or
\* raised.  seq is the number of its GET (0: none sent); gets, sims and scored
\* count the GETs, simulations and predict calls made for it; observed is how
\* its get_weather_for_grid call ended ("returned" or "raised").
NewTask ==
    [status |-> "new", seq |-> 0, gets |-> 0, sims |-> 0, scored |-> 0,
     observed |-> "none", result |-> NoResult]

WaitingTask(seq) == [NewTask EXCEPT !.status = "waiting", !.seq = seq, !.gets = 1]

\* A request: pc is "gather" (predict_fire_risk awaiting its tasks), "fetch"
\* (get_grid_explanation awaiting the weather) or "done"; status is the HTTP
\* status answered (0 until then).  overtaken records that a task of the
\* request has finished while the task of an earlier cell was still waiting.
NewRequest(kind, region_id, grid_id) ==
    [kind |-> kind, region_id |-> region_id, grid_id |-> grid_id,
     pc |-> "done", status |-> 0, detail |-> "",
     grids |-> << >>, tasks |-> << >>,
     predictions |-> << >>, summary |-> NoSummary,
     explanation |-> NoResult, model_loaded |-> FALSE, overtaken |-> FALSE]

\* prediction = model.predict(weather), unless the weather raised
scored_work(fetched, w, p) ==
    [weather_raised |-> w.raised,
     raised     |-> w.raised \/ p.raised,
     rng        |-> w.rng,
     sims       |-> IF fetched.ok THEN 0 ELSE 1,
     scored     |-> IF w.raised THEN 0 ELSE 1,
     weather    |-> w.weather,
     prediction |-> p]

work_on(fetched, instance, w) == scored_work(fetched, w, predict(instance, w.weather))

\* the rest of a cell's work once fetch_weather_from_api has returned fetched:
\* the weather, then predict on the given model instance
CellWork(grid, fetched, instance, rng0, salt) ==
    work_on(fetched, instance,
            weather_after_fetch(grid.center_lat, grid.center_lng, grid.id,
                                fetched, rng0, salt))

\* a task that sends the GET once more before it simulates
FinishedTaskRetried(task, grid, work) ==
    [task EXCEPT !.status = IF work.raised THEN "raised" ELSE "done",
                 !.gets   = @ + work.sims,
                 !.sims   = @ + work.sims,
                 !.scored = @ + work.scored,
                 !.observed = IF work.weather_raised THEN "raised" ELSE "returned",
                 !.result = IF work.raised THEN NoResult
                            ELSE GridPrediction(grid, work.weather, work.prediction)]

\* a task after its cell's work
FinishedTask(task, grid, work) ==
    [task EXCEPT !.status = IF work.raised THEN "raised" ELSE "done",
                 !.sims   = @ + work.sims,
                 !.scored = @ + work.scored,
                 !.observed = IF work.weather_raised THEN "raised" ELSE "returned",
                 !.result = IF work.raised THEN NoResult
                            ELSE GridPrediction(grid, work.weather, work.prediction)]

\* With no key fetch_weather_from_api returns at once, so every task of a
\* gather runs to its end in its first step, one after the other in the order
\* gather created them: tasks k.. of the list, threading the generator.
RECURSIVE RunInline(_, _, _, _, _, _)
RECURSIVE RunInlineFrom(_, _, _, _, _, _)
RunInlineFrom(tasks, grids, k, instance, work, salt) ==
    RunInline([tasks EXCEPT ![k] = FinishedTask(@, grids[k], work)],
              grids, k + 1, instance, work.rng, salt)

RunInline(tasks, grids, k, instance, rng0, salt) ==
    IF k > Len(tasks) THEN [tasks |-> tasks, rng |-> rng0]
    ELSE RunInlineFrom(tasks, grids, k, instance,
                       CellWork(grids[k], fetch_weather_from_api(FALSE, NoResponse),
                                instance, rng0, salt),
                       salt)

AllDone(tasks) == \A k \in 1..Len(tasks) : tasks[k].status = "done"

SomeRaised(tasks) == \E k \in 1..Len(tasks) : tasks[k].status = "raised"

\* gather's results listed from the last awaitable to the first
AfterGatherLastFirst(req) ==
    IF req.pc # "gather" THEN req
    ELSE IF SomeRaised(req.tasks)
    THEN [req EXCEPT !.pc = "done", !.status = 500, !.detail = "TypeError"]
    ELSE IF AllDone(req.tasks)
    THEN LET predictions == [k \in 1..Len(req.tasks) |->
                                req.tasks[Len(req.tasks) + 1 - k].result]
         IN  [req EXCEPT !.pc = "done", !.status = 200,
                         !.predictions = predictions,
                         !.summary = summary_of(predictions)]
    ELSE req

\* predict_fire_risk after a task has finished: gather raises the first
\* exception of a task (answered 500 by the global handler), and returns the
\* results in the order of the awaitables once all are done
AfterGather(req) ==
    IF req.pc # "gather" THEN req
    ELSE IF SomeRaised(req.tasks)
    THEN [req EXCEPT !.pc = "done", !.status = 500, !.detail = "TypeError"]
    ELSE IF AllDone(req.tasks)
    THEN LET predictions == [k \in 1..Len(req.tasks) |-> req.tasks[k].result]
         IN  [req EXCEPT !.pc = "done", !.status = 200,
                         !.predictions = predictions,
                         !.summary = summary_of(predictions)]
    ELSE req

\* get_grid_explanation after its weather and prediction
AfterExplain(req, work) ==
    IF work.raised
    THEN [req EXCEPT !.pc = "done", !.status = 500, !.detail = "TypeError"]
    ELSE [req EXCEPT !.pc = "done", !.status = 200,
                     !.explanation = explain_prediction(work.weather, work.prediction)]

\* GETs still outstanding that were sent before the one numbered seq
OlderWaiting(seq) ==
    {<<r, k>> \in (1..Len(reqs)) \X (1..CellsPerRegion) :
        /\ k <= Len(reqs[r].tasks)
        /\ reqs[r].tasks[k].status = "waiting"
        /\ reqs[r].tasks[k].seq < seq}

\* the environment delivers the answer to GET seq now
Deliverable(seq) == Cardinality(OlderWaiting(seq)) <= MaxOvertake

\* n more GETs may be sent now
MaySend(n) == Cardinality(OlderWaiting(gets + 1)) + n <= MaxOutstanding

Idle == [pc |-> "idle"]

--------------------------------------------------------------------------
(* Actions.  A handler or task runs, without interleaving, up to its next  *)
(* await that suspends (the GET), as the event loop runs it; the first     *)
(* steps of the tasks gather creates run back to back after the handler.   *)

\* gather has run every task to its end (run): predict_fire_risk goes on
GatheredInline(req, grids, run) ==
    /\ reqs' = Append(reqs, AfterGather([req EXCEPT !.pc = "gather", !.grids = grids,
                                                    !.tasks = run.tasks]))
    /\ rng' = run.rng

\* predict_for_grid from the return of its await to its end
TaskEffect(r, k, grid, work) ==
    /\ reqs' = [reqs EXCEPT ![r] =
                   AfterGather([reqs[r] EXCEPT
                       !.tasks[k] = FinishedTask(@, grid, work),
                       !.overtaken = @ \/ \E j \in 1..(k - 1) :
                                               reqs[r].tasks[j].status = "waiting"])]
    /\ rng' = work.rng

\* get_grid_explanation from the weather to its end, for request req
ExplainEffect(req, grid, work) ==
    /\ rng' = work.rng
    /\ IF work.weather_raised
       THEN UNCHANGED <<model_instance, loadCount>>
       ELSE GetModelEffect

ExplainedRequest(req, grid, work) ==
    AfterExplain([req EXCEPT !.grids = <<grid>>,
                             !.tasks = <<FinishedTask(IF Len(@) = 0 THEN NewTask ELSE @[1],
                                                      grid, work)>>],
                 work)

ExplainInline(req, grid, work) ==
    /\ reqs' = Append(reqs, ExplainedRequest(req, grid, work))
    /\ ExplainEffect(req, grid, work)

ExplainResumed(r, grid, work) ==
    /\ reqs' = [reqs EXCEPT ![r] = ExplainedRequest(reqs[r], grid, work)]
    /\ ExplainEffect(reqs[r], grid, work)

\* POST /api/predict: the handler up to the await of gather and the first
\* step of each predict_for_grid task
predict_fire_risk(region_id) ==
    /\ Len(reqs) < MaxRequests
    /\ LET req == NewRequest("predict", region_id, "")
           g   == generate_grids_for_region(region_id)
           got == get_model(model_instance, files)
       IN  IF ~region_registered(region_id)
           THEN /\ reqs' = Append(reqs, [req EXCEPT !.status = 404,
                                                    !.detail = "Unknown region"])
                /\ UNCHANGED <<model_instance, loadCount, rng, gets>>
           ELSE IF g.raised
           THEN /\ reqs' = Append(reqs, [req EXCEPT !.status = 500,
                                                    !.detail = "ValueError"])
                /\ UNCHANGED <<model_instance, loadCount, rng, gets>>
           ELSE IF apiKey
           THEN /\ MaySend(Len(g.grids))
                /\ GetModelEffect
                /\ reqs' = Append(reqs,
                       [req EXCEPT !.pc = "gather", !.grids = g.grids,
                                   !.tasks = [k \in 1..Len(g.grids) |->
                                                 WaitingTask(gets + k)]])
                /\ gets' = gets + Len(g.grids)
                /\ UNCHANGED rng
           ELSE /\ GetModelEffect
                /\ GatheredInline(req, g.grids,
                       RunInline([k \in 1..Len(g.grids) |-> NewTask], g.grids, 1,
                                 got.instance, rng, hashSeed))
                /\ UNCHANGED gets
    /\ UNCHANGED <<service, hashSeed, files, sc>>

\* a task's GET returns or raises: predict_for_grid runs to its end, and with
\* it predict_fire_risk when gather is through
predict_for_grid_resume(r, k) ==
    /\ r \in 1..Len(reqs)
    /\ reqs[r].kind = "predict"
    /\ k \in 1..Len(reqs[r].tasks)
    /\ reqs[r].tasks[k].status = "waiting"
    /\ Deliverable(reqs[r].tasks[k].seq)
    /\ LET grid == reqs[r].grids[k]
           response == ServiceAnswer(service, reqs[r].tasks[k].seq,
                                     grid.center_lat, grid.center_lng)
       IN  TaskEffect(r, k, grid,
                      CellWork(grid, fetch_weather_from_api(apiKey, response),
                               model_instance, rng, hashSeed))
    /\ UNCHANGED <<service, hashSeed, files, model_instance, loadCount, gets, sc>>

\* GET /api/grid/{region_id}/{grid_id}, up to the await of the weather, or to
\* its end when no key is configured
get_grid_explanation(region_id, grid_id) ==
    /\ Len(reqs) < MaxRequests
    /\ LET req   == NewRequest("explain", region_id, grid_id)
           g     == generate_grids_for_region(region_id)
       IN  IF ~region_registered(region_id)
           THEN /\ reqs' = Append(reqs, [req EXCEPT !.status = 404,
                                                    !.detail = "Unknown region"])
                /\ UNCHANGED <<model_instance, loadCount, rng, gets>>
           ELSE IF g.raised
           THEN /\ reqs' = Append(reqs, [req EXCEPT !.status = 500,
                                                    !.detail = "ValueError"])
                /\ UNCHANGED <<model_instance, loadCount, rng, gets>>
           ELSE IF find_grid(g.grids, grid_id) = 0
           THEN /\ reqs' = Append(reqs, [req EXCEPT !.status = 404,
                                                    !.detail = "Grid not found"])
                /\ UNCHANGED <<model_instance, loadCount, rng, gets>>
           ELSE LET grid == g.grids[find_grid(g.grids, grid_id)]
                IN  IF apiKey
                    THEN /\ MaySend(1)
                         /\ reqs' = Append(reqs,
                                [req EXCEPT !.pc = "fetch", !.grids = <<grid>>,
                                            !.tasks = <<WaitingTask(gets + 1)>>])
                         /\ gets' = gets + 1
                         /\ UNCHANGED <<model_instance, loadCount, rng>>
                    ELSE /\ ExplainInline(req, grid,
                                CellWork(grid, fetch_weather_from_api(apiKey, NoResponse),
                                         get_model(model_instance, files).instance,
                                         rng, hashSeed))
                         /\ UNCHANGED gets
    /\ UNCHANGED <<service, hashSeed, files, sc>>

\* the weather of an explanation request arrives: get_model, predict, explain
get_grid_explanation_resume(r) ==
    /\ r \in 1..Len(reqs)
    /\ reqs[r].kind = "explain"
    /\ reqs[r].pc = "fetch"
    /\ Deliverable(reqs[r].tasks[1].seq)
    /\ LET grid == reqs[r].grids[1]
           response == ServiceAnswer(service, reqs[r].tasks[1].seq,
                                     grid.center_lat, grid.center_lng)
       IN  ExplainResumed(r, grid,
                          CellWork(grid, fetch_weather_from_api(apiKey, response),
                                   get_model(model_instance, files).instance,
                                   rng, hashSeed))
    /\ UNCHANGED <<service, hashSeed, files, gets, sc>>

\* GET /api/health
health_check ==
    /\ Len(reqs) < MaxRequests
    /\ GetModelEffect
    /\ reqs' = Append(reqs, [NewRequest("health", "", "") EXCEPT
                                !.status = 200,
                                !.model_loaded = model_instance'.is_loaded])
    /\ UNCHANGED <<service, hashSeed, files, rng, gets, sc>>

\* GET /api/grids/{region_id}: get_region_info
get_grids(region_id) ==
    /\ Len(reqs) < MaxRequests
    /\ LET req == NewRequest("grids", region_id, "")
           g   == generate_grids_for_region(region_id)
       IN  reqs' = Append(reqs,
                     IF ~region_registered(region_id) \/ g.raised
                     THEN [req EXCEPT !.status = 404, !.detail = "Unknown region"]
                     ELSE [req EXCEPT !.status = 200, !.grids = g.grids])
    /\ UNCHANGED <<service, hashSeed, files, model_instance, loadCount, rng, gets, sc>>

\* the training script's save_model writes the three artifacts
save_model ==
    /\ files # GoodFiles(TrainedClassifier)
    /\ files' = GoodFiles(TrainedClassifier)
    /\ UNCHANGED <<service, hashSeed, model_instance, loadCount, rng, reqs, gets, sc>>

\* the state of a process that has just imported its modules
Started ==
    /\ model_instance = NoInstance
    /\ loadCount = 0
    /\ rng = 0
    /\ reqs = << >>
    /\ gets = 0

Init ==
    /\ service \in ServiceStates
    /\ hashSeed \in 0..MaxHashSeed
    /\ files \in {NoFiles, GoodFiles(TrainedClassifier)}
    /\ Started
    /\ sc = Idle

Next ==
    \/ \E region_id \in PredictInputs : predict_fire_risk(region_id)
    \/ \E r \in 1..MaxRequests, k \in 1..CellsPerRegion : predict_for_grid_resume(r, k)
    \/ \E e \in ExplainInputs : get_grid_explanation(e[1], e[2])
    \/ \E r \in 1..MaxRequests : get_grid_explanation_resume(r)
    \/ health_check
    \/ \E region_id \in GridsInputs : get_grids(region_id)

Spec == Init /\ [][Next]_vars

--------------------------------------------------------------------------
(* The service over every state of the models directory                   *)

LoadExplainInputs == { <<"amazon", "amazon_grid_0_0">>, <<"atlantis", "amazon_grid_0_0">> }

InitLoad ==
    /\ service \in {"nokey", "flaky"}
    /\ hashSeed = 0
    /\ files \in ArtifactStates
    /\ Started
    /\ sc = Idle

NextLoad ==
    \/ predict_fire_risk("amazon")
    \/ \E r \in 1..MaxRequests, k \in 1..CellsPerRegion : predict_for_grid_resume(r, k)
    \/ \E e \in LoadExplainInputs : get_grid_explanation(e[1], e[2])
    \/ \E r \in 1..MaxRequests : get_grid_explanation_resume(r)
    \/ health_check
    \/ save_model

SpecLoad == InitLoad /\ [][NextLoad]_vars

--------------------------------------------------------------------------
(* The scoring pipeline on its own: an observation, its indices, predict, *)
(* explain_prediction                                                      *)

\* observations, in 1/100: ordinary, extreme and out-of-range values
ScoreTemperatures ==
    {-4000, 2000, 3012, 3650, 3653, 3675, 3700, 4000, 5300, 5325, 5350, 10000}

ScoreHumidities == {0, 2000, 4000, 8000, 15000}

\* in 1/1000
ScoreWinds == {0, 11268, 25000}

ScoreRainfalls == {0, 50, 600}

Observation(temp, humidity, wind, rain) ==
    [temperature |-> temp, humidity |-> humidity, wind_speed |-> wind,
     rainfall |-> rain, source |-> "simulated"]

\* observations at the values explain_prediction compares with
ThresholdObservations ==
    {Observation(t, h, w, r) : t \in {3000, 3500}, h \in {3000, 5000},
                               w \in {15000, 20000}, r \in {100, 500}}

ScoreObservations ==
    {Observation(t, h, w, r) : t \in ScoreTemperatures, h \in ScoreHumidities,
                               w \in ScoreWinds, r \in ScoreRainfalls}
    \cup ThresholdObservations

\* the fire probabilities (1/1000000) of the classifiers scored with
ScoreProbabilities ==
    {0, 330000, 330490, 335000, 340000, 660000, 664490, 670000, 1000000}

\* the model instances scored with: the rule-based one, and a loaded one for
\* each classifier
\* a model file that unpickles to None beside a good scaler
EmptyModelFiles == [GoodFiles(TrainedClassifier) EXCEPT !.model = File(TRUE, TRUE, NoneObj)]

\* a scaler file that raises on loading after the model file has loaded
ScalerRaisesFiles == [GoodFiles(TrainedClassifier) EXCEPT !.scaler = File(TRUE, FALSE, NoneObj)]

ScoreInstances ==
    {FireRiskModel(NoFiles), FireRiskModel(GoodFiles(OneClassClassifier)),
     FireRiskModel(EmptyModelFiles), FireRiskModel(ScalerRaisesFiles)}
    \cup {FireRiskModel(GoodFiles(Classifier(<<1000000 - p, p>>, TrainedClassifier.importances))) :
             p \in ScoreProbabilities}

\* index values a caller of predict passes itself, in 1/10; a caller may
\* leave keys out
GivenIndices ==
    { [fwi |-> 0], [fwi |-> 150], [fwi |-> 200],
      [ffmc |-> 850, dmc |-> 120, dc |-> 2000, isi |-> 60, bui |-> 150, fwi |-> 151] }

Merge(d, e) ==
    [key \in DOMAIN d \cup DOMAIN e |-> IF key \in DOMAIN e THEN e[key] ELSE d[key]]

\* generate_fire_weather_indices on the observation, merged into it
ScDerive ==
    /\ sc.pc = "observed"
    /\ sc' = [sc EXCEPT !.pc = "derived",
                        !.indices = generate_fire_weather_indices(sc.weather),
                        !.weather = Merge(@, generate_fire_weather_indices(sc.weather))]
    /\ UNCHANGED <<service, hashSeed, files, model_instance, loadCount, rng, reqs, gets>>

\* the caller supplies the indices
ScGiven(ix) ==
    /\ sc.pc = "observed"
    /\ sc' = [sc EXCEPT !.pc = "given", !.weather = Merge(@, ix)]
    /\ UNCHANGED <<service, hashSeed, files, model_instance, loadCount, rng, reqs, gets>>

\* self.predict(weather_data)
ScPredict ==
    /\ sc.pc \in {"derived", "given"}
    /\ sc' = [sc EXCEPT !.pc = "scored", !.prediction = predict(sc.self, sc.weather)]
    /\ UNCHANGED <<service, hashSeed, files, model_instance, loadCount, rng, reqs, gets>>

\* self.explain_prediction(weather_data, prediction)
ScExplain ==
    /\ sc.pc = "scored"
    /\ ~sc.prediction.raised
    /\ sc' = [sc EXCEPT !.pc = "explained",
                        !.explanation = explain_prediction(sc.weather, sc.prediction)]
    /\ UNCHANGED <<service, hashSeed, files, model_instance, loadCount, rng, reqs, gets>>

InitScore ==
    /\ service = "nokey"
    /\ hashSeed = 0
    /\ files = NoFiles
    /\ Started
    /\ \E w \in ScoreObservations, self \in ScoreInstances :
          /\ self.is_loaded => /\ w.humidity = 4000
                               /\ w.wind_speed = 11268
                               /\ w.rainfall = 0
          /\ sc = [pc |-> "observed", weather |-> w, self |-> self,
                   indices |-> NoResult, prediction |-> NoResult,
                   explanation |-> NoResult]

NextScore ==
    \/ ScDerive
    \/ \E ix \in GivenIndices : ScGiven(ix)
    \/ ScPredict
    \/ ScExplain

SpecScore == InitScore /\ [][NextScore]_vars

--------------------------------------------------------------------------
(* The summary of predict_fire_risk on its own: the results gather has    *)
(* returned for the cells of a region, then the summary statistics        *)

\* how far the categories are rotated along the list of cells
SummaryShifts == {0, 5}

\* the two scores (tenths) the cells of each category are given
SummaryVariants == {1, 2}

\* the score of the cell at place (0 = first after the rotation) when the
\* first high places are High and the next medium ones Medium
PlacedScore(place, high, medium, variant) ==
    IF place < high THEN (IF variant = 1 THEN 665 ELSE 1000)
    ELSE IF place < high + medium THEN (IF variant = 1 THEN 335 ELSE 660)
    ELSE (IF variant = 1 THEN 0 ELSE 330)

\* what model.predict returned for a cell that scored risk_score
ScoredAs(risk_score) ==
    [raised |-> FALSE, branch |-> "fallback", risk_score |-> risk_score,
     risk_category |-> risk_category(risk_score), probability |-> risk_score * 10,
     feature_importance |-> FALLBACK_IMPORTANCE,
     model_type |-> "Rule-based Fallback"]

\* predictions = await asyncio.gather(...): the dicts of the cells of a
\* region, the first real of them with live weather
GatheredResults(grids, high, medium, shift, variant, real) ==
    [k \in 1..Len(grids) |->
        GridPrediction(grids[k],
                       [source |-> IF k <= real THEN "openweather_api" ELSE "simulated"],
                       ScoredAs(PlacedScore((k - 1 + shift) % Len(grids),
                                            high, medium, variant)))]

\* live results among the twelve, by the service's condition
LiveResults(svc) ==
    CASE svc = "up" -> CellsPerRegion
      [] svc = "flaky" -> CellsPerRegion \div 2
      [] OTHER -> 0

\* the summary statistics of predict_fire_risk
ScSummarise ==
    /\ sc.pc = "gathered"
    /\ sc' = [sc EXCEPT !.pc = "summarised", !.summary = summary_of(sc.predictions)]
    /\ UNCHANGED <<service, hashSeed, files, model_instance, loadCount, rng, reqs, gets>>

InitSummary ==
    /\ service \in {"nokey", "flaky", "up"}
    /\ hashSeed = 0
    /\ files = NoFiles
    /\ Started
    /\ \E high \in 0..CellsPerRegion, medium \in 0..CellsPerRegion,
          shift \in SummaryShifts, variant \in SummaryVariants :
          /\ high + medium <= CellsPerRegion
          /\ sc = [pc |-> "gathered",
                   predictions |-> GatheredResults(generate_grids_for_region("amazon").grids,
                                                   high, medium, shift, variant,
                                                   LiveResults(service)),
                   summary |-> NoSummary]

NextSummary == ScSummarise

SpecSummary == InitSummary /\ [][NextSummary]_vars

--------------------------------------------------------------------------
(* generate_simulated_weather on its own: any latitude in whole degrees,   *)
(* any cell id, any salt of the string hash                                *)

SimLatitudes == {d * 1000 : d \in -90..90}

\* the call has returned sim
SimulatedAs(sim) ==
    /\ sc' = [sc EXCEPT !.pc = "simulated", !.weather = sim.weather]
    /\ rng' = sim.rng

\* generate_simulated_weather(lat, lng, grid_id)
ScSimulate ==
    /\ sc.pc = "seeded"
    /\ SimulatedAs(generate_simulated_weather(sc.lat, sc.lng, sc.grid_id, rng, hashSeed))
    /\ UNCHANGED <<service, hashSeed, files, model_instance, loadCount, reqs, gets>>

InitSim ==
    /\ service = "nokey"
    /\ hashSeed \in 0..MaxHashSeed
    /\ files = NoFiles
    /\ Started
    /\ \E lat \in SimLatitudes, grid_id \in AllGridIds :
          sc = [pc |-> "seeded", lat |-> lat, lng |-> 0, grid_id |-> grid_id,
                weather |-> NoResult]

NextSim == ScSimulate

SpecSim == InitSim /\ [][NextSim]_vars

--------------------------------------------------------------------------
(* Properties: the grid, the handlers, the weather provider               *)

\* the requests that hold the cells of a whole region
RegionRequests ==
    {r \in 1..Len(reqs) : /\ reqs[r].kind \in {"grids", "predict"}
                          /\ reqs[r].region_id \in RegionIds}

\* the interiors of two boxes are disjoint
Apart(a, b) ==
    \/ a.east <= b.west \/ b.east <= a.west
    \/ a.north <= b.south \/ b.north <= a.south

\* grids is one cell per (row, col) of the region, with distinct ids, tiling
\* the region's bounding box
TilesRegion(region_id, grids) ==
    LET region == FOREST_REGIONS[region_id]
        cells  == 1..Len(grids)
        At(row, col) == {k \in cells : grids[k].row = row /\ grids[k].col = col}
    IN  /\ Len(grids) = region.grid_rows * region.grid_cols
        /\ \A row \in 0..(region.grid_rows - 1), col \in 0..(region.grid_cols - 1) :
              Cardinality(At(row, col)) = 1
        /\ \A j, k \in cells : j # k => /\ grids[j].id # grids[k].id
                                        /\ Apart(grids[j].bounds, grids[k].bounds)
        /\ \A k \in cells :
              LET c == grids[k]
              IN  /\ c.bounds.south < c.bounds.north
                  /\ c.bounds.west < c.bounds.east
                  /\ c.row = 0 => c.bounds.north = region.bounds.north
                  /\ c.row = region.grid_rows - 1 => c.bounds.south = region.bounds.south
                  /\ c.col = 0 => c.bounds.west = region.bounds.west
                  /\ c.col = region.grid_cols - 1 => c.bounds.east = region.bounds.east
                  /\ \A j \in cells :
                        /\ (grids[j].row = c.row + 1 /\ grids[j].col = c.col)
                              => c.bounds.south = grids[j].bounds.north
                        /\ (grids[j].col = c.col + 1 /\ grids[j].row = c.row)
                              => c.bounds.east = grids[j].bounds.west

\* C1: the cells generate_grids_for_region returns for a registered region,
\* to GET /api/grids and to POST /api/predict alike, are exactly grid_rows x
\* grid_cols, one per (row, col) with a distinct id, and their boxes tile the
\* region's box: the outer edges are the region's, each cell's south edge is
\* the north edge of the cell below, its east edge the west edge of the cell
\* to its right, and no two cells overlap.
C1_GridsTileRegion ==
    \A r \in RegionRequests : TilesRegion(reqs[r].region_id, reqs[r].grids)

\* C1 happens: the cells of two different registered regions have been returned
C1_TwoRegionsTiled ==
    /\ Len(reqs) = 2
    /\ RegionRequests = {1, 2}
    /\ reqs[1].region_id = "mediterranean"
    /\ reqs[2].region_id = "california"
    /\ reqs[1].status = 200 /\ reqs[2].status = 200
    /\ Len(reqs[1].grids) = CellsPerRegion

\* the GETs sent for the tasks of the requests
GetsOfRequests ==
    {<<r, k>> \in (1..Len(reqs)) \X (1..CellsPerRegion) :
        k <= Len(reqs[r].tasks) /\ reqs[r].tasks[k].gets = 1}

\* C2: a prediction request for an unregistered region id is answered 404,
\* unknown region, with no cell generated, no task (so no fetch, simulation
\* or scoring call) started for it, and every GET sent so far belongs to a
\* task of some other request.
C2_UnknownRegionNoWork ==
    /\ \A r \in 1..Len(reqs) :
          (reqs[r].kind = "predict" /\ reqs[r].region_id \notin RegionIds)
            => /\ reqs[r].pc = "done"
               /\ reqs[r].status = 404
               /\ reqs[r].detail = "Unknown region"
               /\ reqs[r].grids = << >>
               /\ reqs[r].tasks = << >>
               /\ reqs[r].predictions = << >>
    /\ gets = Cardinality(GetsOfRequests)

\* C2 happens: an unknown region is asked for while another request's tasks
\* are waiting for their GETs
C2_UnknownRegionDuringGather ==
    /\ Len(reqs) = 2
    /\ reqs[1].pc = "gather"
    /\ reqs[2].kind = "predict"
    /\ reqs[2].region_id \notin RegionIds
    /\ reqs[2].status = 404

\* the per-cell calls of get_weather_for_grid that have ended
EndedCalls ==
    {<<r, k>> \in (1..Len(reqs)) \X (1..CellsPerRegion) :
        k <= Len(reqs[r].tasks) /\ reqs[r].tasks[k].observed # "none"}

ObservationKeys ==
    {"temperature", "humidity", "wind_speed", "rainfall", "source",
     "ffmc", "dmc", "dc", "isi", "bui", "fwi"}

\* C3 as stated: every call of get_weather_for_grid returns, whatever the
\* live fetch did (no key, a network error, a status other than 200, a
\* malformed body, a good body), a complete observation, tagged simulated
\* exactly when the fetch did not succeed, and never raises.
C3_WeatherAlwaysReturned ==
    \A c \in EndedCalls :
        LET task == reqs[c[1]].tasks[c[2]]
        IN  /\ task.observed = "returned"
            /\ task.status = "done"
            /\ ObservationKeys \subseteq DOMAIN task.result.weather
            /\ task.result.weather.source = "simulated" <=> task.sims = 1
            /\ task.result.weather.source = "openweather_api" <=> task.sims = 0

\* the finished per-cell calls whose observation was simulated
SimulatedCalls ==
    {c \in EndedCalls :
        /\ reqs[c[1]].tasks[c[2]].status = "done"
        /\ reqs[c[1]].tasks[c[2]].result.weather.source = "simulated"}

\* C4: within a process, two simulated observations of the same cell are
\* identical, whichever request they were made for, whatever other cells were
\* simulated before or between them and however the tasks interleaved.
C4_SimulationDeterministic ==
    \A c, d \in SimulatedCalls :
        reqs[c[1]].tasks[c[2]].result.grid_id = reqs[d[1]].tasks[d[2]].result.grid_id
          => reqs[c[1]].tasks[c[2]].result.weather = reqs[d[1]].tasks[d[2]].result.weather

\* C4 happens: a cell is simulated for an explanation while the prediction
\* request that simulated it before still has tasks waiting
C4_SameCellSimulatedTwice ==
    /\ Len(reqs) = 2
    /\ reqs[1].kind = "predict" /\ reqs[1].pc = "gather"
    /\ reqs[2].kind = "explain" /\ reqs[2].status = 200
    /\ \E c \in SimulatedCalls :
          /\ c[1] = 1
          /\ <<2, 1>> \in SimulatedCalls
          /\ reqs[1].tasks[c[2]].result.grid_id = reqs[2].tasks[1].result.grid_id
          /\ \E d \in SimulatedCalls : d[1] = 1 /\ d[2] > c[2]

--------------------------------------------------------------------------
(* Properties: the indices and the scorer                                  *)

\* the pipeline has derived the indices of its observation
Derived == sc.pc # "idle" /\ "ffmc" \in DOMAIN sc.indices

\* the pipeline has a prediction
Scored == sc.pc \in {"scored", "explained"}

\* C5: for every observation, extreme and out-of-range values included,
\* each index generate_fire_weather_indices returns lies in its range of
\* FWI_RANGES: ffmc in [40, 96], dmc in [1, 30], dc in [5, 400], isi in
\* [0, 15], bui in [1, 40], fwi in [0, 25].
C5_IndicesInRange ==
    Derived =>
        \A key \in DOMAIN FWI_RANGES :
            /\ FWI_RANGES[key].min * 10 <= sc.indices[key]
            /\ sc.indices[key] <= FWI_RANGES[key].max * 10

\* C5 happens: temperature 100 and humidity 0 have been derived from, and the
\* formulas' values were cut back to the ends of the ranges
C5_ExtremeInputDerived ==
    /\ Derived
    /\ sc.weather.temperature = 10000
    /\ sc.weather.humidity = 0
    /\ sc.indices.ffmc = 960
    /\ sc.indices.dmc = 300
    /\ sc.indices.dc = 4000

\* C6: in both modes and for every weather input the score predict returns
\* is in [0, 100] and the probability in [0, 1]; score 33 is Low, 34 is
\* Medium, 66 is Medium, 67 is High.
C6_ScoreInRange ==
    Scored =>
        /\ ~sc.prediction.raised
        /\ 0 <= sc.prediction.risk_score /\ sc.prediction.risk_score <= 1000
        /\ 0 <= sc.prediction.probability /\ sc.prediction.probability <= 10000
        /\ sc.prediction.risk_score = 330 => sc.prediction.risk_category = "Low"
        /\ sc.prediction.risk_score = 340 => sc.prediction.risk_category = "Medium"
        /\ sc.prediction.risk_score = 660 => sc.prediction.risk_category = "Medium"
        /\ sc.prediction.risk_score = 670 => sc.prediction.risk_category = "High"

\* C6 happens: the rule-based scorer has met a weighted sum far above 100 and
\* returned the top of the range
C6_ExtremeInputScored ==
    /\ Scored
    /\ ~sc.self.is_loaded
    /\ sc.weather.temperature = 10000
    /\ sc.weather.humidity = 0
    /\ sc.prediction.risk_score = 1000
    /\ sc.prediction.probability = 10000

\* C7 as stated: the category is Low only when score <= 33, Medium only when
\* 34 <= score <= 66, High only when score >= 67.
C7_StatedBands ==
    Scored =>
        /\ sc.prediction.risk_category = "Low" => sc.prediction.risk_score <= 330
        /\ sc.prediction.risk_category = "Medium"
              => (340 <= sc.prediction.risk_score /\ sc.prediction.risk_score <= 660)
        /\ sc.prediction.risk_category = "High" => sc.prediction.risk_score >= 670

\* C7, amended: for every one-decimal score predict returns, the category
\* is Low exactly when score <= 33, Medium exactly when 33 < score <= 66, and
\* High exactly when score > 66.
C7_BandsAsComputed ==
    Scored =>
        /\ sc.prediction.risk_category = "Low" <=> sc.prediction.risk_score <= 330
        /\ sc.prediction.risk_category = "Medium"
              <=> (330 < sc.prediction.risk_score /\ sc.prediction.risk_score <= 660)
        /\ sc.prediction.risk_category = "High" <=> sc.prediction.risk_score > 660

\* C7 happens: a score strictly between 33 and 34 has been classified
C7_ScoreBetweenBands ==
    /\ Scored
    /\ sc.prediction.risk_score = 335
    /\ sc.prediction.risk_category = "Medium"

\* the pipeline has a prediction of the rule-based scorer
ScoredByRule == Scored /\ ~sc.self.is_loaded

\* (temp - 20) * 2 + (80 - humidity) * 0.5 + wind * 1.5 + fwi * 3 - rain * 10
\* of an observation, cut to [0, 100], in 1/10000
RuleRisk(weather) ==
    LET raw == (weather.temperature - 2000) * 200 + (8000 - weather.humidity) * 50
               + weather.wind_speed * 15 + weather.fwi * 3000
               - weather.rainfall * 1000
    IN  IF raw < 0 THEN 0 ELSE IF raw > 1000000 THEN 1000000 ELSE raw

StatedRisk == RuleRisk(sc.weather)

\* the input temp = 40, humidity = 20, wind = 25, rain = 0, fwi = 20
StatedExample ==
    /\ sc.weather.temperature = 4000 /\ sc.weather.humidity = 2000
    /\ sc.weather.wind_speed = 25000 /\ sc.weather.rainfall = 0
    /\ sc.weather.fwi = 200

\* what C8 says besides the probability: the score is the stated risk
\* rounded to one decimal, the importances are the fixed ones, and the
\* example scores 100, High
StatedScore ==
    /\ sc.prediction.risk_score = RoundHalfEven(StatedRisk, 1000)
    /\ sc.prediction.feature_importance
         = <<1800, 1500, 1200, 1000, 1500, 800, 700, 600, 500, 400>>
    /\ StatedExample => /\ sc.prediction.risk_score = 1000
                        /\ sc.prediction.risk_category = "High"

\* C8 as stated: in fallback mode the score is the stated risk rounded to one
\* decimal, the probability is that risk divided by 100, the importances
\* are fixed and the example scores 100, High.
C8_StatedProbability ==
    ScoredByRule => /\ StatedScore
                    /\ sc.prediction.probability * 100 = StatedRisk

\* C8, amended: in fallback mode the score is the stated risk rounded to one
\* decimal, the probability is that risk divided by 100 and rounded to four
\* decimals, the importances are the same fixed constants for every input,
\* and temp = 40, humidity = 20, wind = 25, rain = 0, fwi = 20 scores 100, High.
C8_FallbackFormula ==
    ScoredByRule => /\ StatedScore
                    /\ sc.prediction.probability = RoundHalfEven(StatedRisk, 100)

\* C8 happens: the example has been scored by the rule-based scorer
C8_ExampleScored ==
    /\ ScoredByRule
    /\ StatedExample
    /\ sc.prediction.risk_score = 1000
    /\ sc.prediction.probability = 10000

--------------------------------------------------------------------------
(* Properties: the model artifacts and the shared instance                 *)

\* the classifier file or the scaler file is absent, or loading an artifact
\* raises
Degraded(fs) ==
    \/ ~fs.model.exists
    \/ ~fs.scaler.exists
    \/ ~fs.model.loads
    \/ ~fs.scaler.loads
    \/ (fs.metadata.exists /\ ~fs.metadata.loads)

\* the per-cell tasks, of prediction and explanation requests, that have scored
ScoredCalls ==
    {<<r, k>> \in (1..Len(reqs)) \X (1..CellsPerRegion) :
        k <= Len(reqs[r].tasks) /\ reqs[r].tasks[k].scored = 1}

\* C9: when the model was loaded from files of which the classifier or the
\* scaler was absent, or of which one raised on loading, the scorer is in
\* fallback mode from then on, whatever is saved later: no request fails,
\* the health endpoint reports the model as not loaded, and every prediction
\* carries the fallback tag and is the rule's value for its weather.
C9_DegradedLoadFallsBack ==
    (model_instance.created /\ Degraded(model_instance.loaded_from))
      => /\ ~model_instance.is_loaded
         /\ \A r \in 1..Len(reqs) :
               /\ reqs[r].status # 500
               /\ reqs[r].kind = "health" => ~reqs[r].model_loaded
         /\ \A c \in ScoredCalls :
               LET task == reqs[c[1]].tasks[c[2]]
               IN  /\ task.status = "done"
                   /\ task.result.model_type = "Rule-based Fallback"
                   /\ task.result.risk_score
                        = RoundHalfEven(RuleRisk(task.result.weather), 1000)
                   /\ task.result.probability
                        = RoundHalfEven(RuleRisk(task.result.weather), 100)

\* C9 happens: a load on which the scaler raised, good artifacts saved
\* afterwards, and a whole region predicted by the rule since
C9_FallbackAfterFailedLoad ==
    /\ model_instance.created
    /\ ~model_instance.loaded_from.scaler.loads
    /\ model_instance.loaded_from.model.exists
    /\ files = GoodFiles(TrainedClassifier)
    /\ Len(reqs) = 2
    /\ reqs[1].kind = "health"
    /\ reqs[2].kind = "predict"
    /\ reqs[2].status = 200
    /\ Cardinality(ScoredCalls) = CellsPerRegion

\* C10: the artifacts are loaded at most once per process, and once an
\* instance exists every later get_model call, of a prediction, explanation
\* or health request, leaves that same instance in place, with its mode and
\* the objects it loaded unchanged by any step, scoring included.
C10_LoadedOnce ==
    /\ [](loadCount <= 1)
    /\ [][model_instance.created => model_instance' = model_instance]_vars

\* C10 happens: two requests have asked for the model since the files on
\* disk stopped being the ones it was loaded from
C10_SecondCallAfterSave ==
    /\ loadCount = 1
    /\ model_instance.created
    /\ files # model_instance.loaded_from
    /\ Len(reqs) = 2
    /\ reqs[1].kind = "health"
    /\ reqs[2].kind = "explain"
    /\ reqs[2].status = 200
    /\ ~reqs[1].model_loaded
    /\ reqs[2].tasks[1].result.model_type = "Rule-based Fallback"

--------------------------------------------------------------------------
(* Properties: the region summary                                          *)

Summarised == sc.pc = "summarised"

\* the places of the results whose category is c
CellsOfCategory(predictions, c) ==
    {k \in 1..Len(predictions) : predictions[k].risk_category = c}

\* C11: the alert level of a region summary depends on the number of High
\* cells only: none gives NORMAL, one or two give WARNING, three or more give
\* CRITICAL; and high_risk_count is the number of cells whose category is High.
C11_AlertFollowsHighCount ==
    Summarised =>
        LET high == Cardinality(CellsOfCategory(sc.predictions, "High"))
        IN  /\ sc.summary.high_risk_count = high
            /\ high = 0 => sc.summary.alert_level = "NORMAL"
            /\ high \in {1, 2} => sc.summary.alert_level = "WARNING"
            /\ high >= 3 => sc.summary.alert_level = "CRITICAL"

\* C11 happens: twelve cells with 3 High, 2 Medium and 7 Low have been
\* summarised as CRITICAL with high_risk_count 3
C11_ThreeHighSummarised ==
    /\ Summarised
    /\ Len(sc.predictions) = 12
    /\ Cardinality(CellsOfCategory(sc.predictions, "High")) = 3
    /\ Cardinality(CellsOfCategory(sc.predictions, "Medium")) = 2
    /\ Cardinality(CellsOfCategory(sc.predictions, "Low")) = 7
    /\ sc.summary.alert_level = "CRITICAL"
    /\ sc.summary.high_risk_count = 3

--------------------------------------------------------------------------
(* Properties: the explanation                                             *)

Explained == sc.pc = "explained"

\* the explanation lists a factor of this name, and every factor of this
\* name carries this impact
Produced(name, impact) ==
    LET factors == sc.explanation.contributing_factors
    IN  /\ \E k \in 1..Len(factors) : factors[k].factor = name
        /\ \A k \in 1..Len(factors) : factors[k].factor = name => factors[k].impact = impact

\* the rules on which the statement and the code agree: the critical
\* factors, the rainfall factors, and no factor of any other name
UndisputedRules ==
    LET w == sc.weather
        factors == sc.explanation.contributing_factors
    IN  /\ Produced("High Temperature", "critical") <=> w.temperature > 3500
        /\ Produced("Very Low Humidity", "critical") <=> w.humidity < 3000
        /\ Produced("High Wind Speed", "critical") <=> w.wind_speed > 20000
        /\ Produced("Recent Rainfall", "protective") <=> w.rainfall > 500
        /\ Produced("No Recent Rain", "moderate") <=> w.rainfall < 100
        /\ Produced("High Fire Weather Index", "critical") <=> w.fwi > 150
        /\ \A k \in 1..Len(factors) :
              /\ factors[k].factor \in
                    {"High Temperature", "Elevated Temperature", "Very Low Humidity",
                     "Low Humidity", "High Wind Speed", "Moderate Wind",
                     "Recent Rainfall", "No Recent Rain", "High Fire Weather Index"}
              /\ \A j \in 1..Len(factors) : factors[j].factor = factors[k].factor => j = k

\* C12 as stated: explain_prediction gives Elevated Temperature for 30 <= temp
\* <= 35, Low Humidity for 30 <= humidity <= 50 and Moderate Wind for 15 <=
\* wind <= 20, besides the critical, rainfall and index factors, and no
\* factor outside these conditions.
C12_StatedFactorRules ==
    Explained =>
        /\ UndisputedRules
        /\ Produced("Elevated Temperature", "high")
              <=> (3000 <= sc.weather.temperature /\ sc.weather.temperature <= 3500)
        /\ Produced("Low Humidity", "moderate")
              <=> (3000 <= sc.weather.humidity /\ sc.weather.humidity <= 5000)
        /\ Produced("Moderate Wind", "moderate")
              <=> (15000 <= sc.weather.wind_speed /\ sc.weather.wind_speed <= 20000)

\* C12, amended: Elevated Temperature exactly for 30 < temp <= 35, Low
\* Humidity exactly for 30 <= humidity < 50, Moderate Wind exactly for 15 <
\* wind <= 20; the critical, rainfall and index factors as stated, and no
\* factor outside these conditions.
C12_FactorRulesAsComputed ==
    Explained =>
        /\ UndisputedRules
        /\ Produced("Elevated Temperature", "high")
              <=> (3000 < sc.weather.temperature /\ sc.weather.temperature <= 3500)
        /\ Produced("Low Humidity", "moderate")
              <=> (3000 <= sc.weather.humidity /\ sc.weather.humidity < 5000)
        /\ Produced("Moderate Wind", "moderate")
              <=> (15000 < sc.weather.wind_speed /\ sc.weather.wind_speed <= 20000)

\* C12 happens: an observation of exactly 30 degrees, 50 % humidity and
\* 15 km/h wind has been explained, and none of the three factors is listed
C12_LowerEndsExplained ==
    /\ Explained
    /\ sc.weather.temperature = 3000
    /\ sc.weather.humidity = 5000
    /\ sc.weather.wind_speed = 15000
    /\ \A k \in 1..Len(sc.explanation.contributing_factors) :
          sc.explanation.contributing_factors[k].factor
              \notin {"Elevated Temperature", "Low Humidity", "Moderate Wind"}

--------------------------------------------------------------------------
(* Properties: the concurrent tasks of a prediction request                *)

\* the prediction requests answered with their results
AnsweredPredictions ==
    {r \in 1..Len(reqs) : reqs[r].kind = "predict" /\ reqs[r].status = 200}

\* C13: whatever the order in which the per-cell tasks of a prediction
\* request complete, the i-th returned result carries the identifier, row and
\* col of the i-th generated cell, and the cells are in row-major order.
C13_ResultsInCellOrder ==
    \A r \in AnsweredPredictions :
        LET cells == generate_grids_for_region(reqs[r].region_id).grids
        IN  /\ Len(reqs[r].predictions) = Len(cells)
            /\ \A i \in 1..Len(cells) :
                  /\ reqs[r].predictions[i].grid_id = cells[i].id
                  /\ reqs[r].predictions[i].row = cells[i].row
                  /\ reqs[r].predictions[i].col = cells[i].col
                  /\ reqs[r].predictions[i].row = (i - 1) \div GRID_COLS
                  /\ reqs[r].predictions[i].col = (i - 1) % GRID_COLS

\* C13 happens: a request whose tasks finished out of cell order has been
\* answered with its results
C13_AnsweredAfterOvertaking ==
    \E r \in AnsweredPredictions : reqs[r].overtaken

\* the prediction requests for a registered region
RegionPredictions ==
    {r \in 1..Len(reqs) : reqs[r].kind = "predict" /\ reqs[r].region_id \in RegionIds}

\* C14 as stated: in a prediction request the summary is computed only after
\* every cell's task has completed, and every cell yields a complete result
\* whatever its live fetch or that of another cell did: no task raises, the
\* request is not failed, no cell is missing from the results, a cell whose
\* own fetch succeeded keeps its live observation, and total_grids is
\* grid_rows * grid_cols.
C14_EveryCellYieldsResult ==
    \A r \in RegionPredictions :
        /\ \A k \in 1..Len(reqs[r].tasks) : reqs[r].tasks[k].status # "raised"
        /\ reqs[r].summary # NoSummary => AllDone(reqs[r].tasks)
        /\ reqs[r].pc = "done" =>
              /\ reqs[r].status = 200
              /\ AllDone(reqs[r].tasks)
              /\ Len(reqs[r].predictions) = GRID_ROWS * GRID_COLS
              /\ reqs[r].summary.total_grids = GRID_ROWS * GRID_COLS
              /\ \A k \in 1..Len(reqs[r].tasks) :
                    /\ reqs[r].predictions[k] = reqs[r].tasks[k].result
                    /\ ObservationKeys \subseteq DOMAIN reqs[r].predictions[k].weather

\* the keys of the stated per-cell result
StatedResultKeys ==
    {"grid_id", "row", "col", "center", "bounds", "area_km2", "risk_score",
     "risk_category", "probability", "weather", "feature_importance", "model_type"}

\* C15 as stated: every per-cell result of a prediction request has the cell
\* identifier, row, col, center, bounds, area, risk score, category,
\* probability, the weather payload with its provenance tag, the feature
\* importances and the scorer-mode tag.
C15_ResultHasStatedFields ==
    \A r \in AnsweredPredictions :
        \A k \in 1..Len(reqs[r].predictions) :
            /\ StatedResultKeys \subseteq DOMAIN reqs[r].predictions[k]
            /\ "source" \in DOMAIN reqs[r].predictions[k].weather

--------------------------------------------------------------------------
(* Properties: the explanation request                                     *)

\* the ids of the cells generated for a registered region
CellIds(region_id) ==
    {generate_grids_for_region(region_id).grids[k].id : k \in 1..CellsPerRegion}

\* C16: an explanation request for a registered region and an id that is not
\* one of its cells (an id of another region's cell included) is answered
\* 404, grid not found, with no fetch, simulation, scoring or explanation made
\* for it; one for an unregistered region is answered 404, unknown region,
\* with no cell generated; and every GET sent belongs to some other request.
C16_UnknownCellNoWork ==
    /\ \A r \in 1..Len(reqs) :
          reqs[r].kind = "explain" =>
            /\ reqs[r].region_id \notin RegionIds =>
                  /\ reqs[r].pc = "done"
                  /\ reqs[r].status = 404
                  /\ reqs[r].detail = "Unknown region"
                  /\ reqs[r].grids = << >>
                  /\ reqs[r].tasks = << >>
                  /\ reqs[r].explanation = NoResult
            /\ (reqs[r].region_id \in RegionIds
                  /\ reqs[r].grid_id \notin CellIds(reqs[r].region_id)) =>
                  /\ reqs[r].pc = "done"
                  /\ reqs[r].status = 404
                  /\ reqs[r].detail = "Grid not found"
                  /\ reqs[r].tasks = << >>
                  /\ reqs[r].explanation = NoResult
    /\ gets = Cardinality(GetsOfRequests)

\* C16 happens: the cell of another region has been asked for in a registered
\* region, and so has an unregistered region
C16_ForeignCellAsked ==
    /\ \E r \in 1..Len(reqs) :
          /\ reqs[r].kind = "explain"
          /\ reqs[r].region_id = "amazon"
          /\ reqs[r].grid_id = "california_grid_1_1"
          /\ reqs[r].status = 404
    /\ \E r \in 1..Len(reqs) :
          /\ reqs[r].kind = "explain"
          /\ reqs[r].region_id \notin RegionIds
          /\ reqs[r].status = 404

--------------------------------------------------------------------------
(* Properties: the live fetch                                              *)

\* what fetch_weather_from_api returned to the call of an ended task
FetchedBy(r, k) ==
    fetch_weather_from_api(apiKey /\ reqs[r].tasks[k].gets = 1,
                           ServiceAnswer(service, reqs[r].tasks[k].seq,
                                         reqs[r].grids[k].center_lat,
                                         reqs[r].grids[k].center_lng))

\* the ended calls whose live fetch failed
FailedFetches ==
    {c \in EndedCalls : reqs[c[1]].tasks[c[2]].gets = 1 /\ ~FetchedBy(c[1], c[2]).ok}

\* C17: a failed live fetch is never retried: every GET sent is the one GET
\* of some cell's call, no call makes more than one, and a call whose GET
\* failed has returned the simulated observation, simulated once, in the
\* same call.
C17_FailedFetchNotRetried ==
    /\ gets = Cardinality(GetsOfRequests)
    /\ \A r \in 1..Len(reqs) : \A k \in 1..Len(reqs[r].tasks) :
          /\ reqs[r].tasks[k].gets <= 1
          /\ reqs[r].tasks[k].sims <= 1
          /\ reqs[r].tasks[k].status = "waiting" =>
                reqs[r].tasks[k].gets = 1 /\ reqs[r].tasks[k].sims = 0
    /\ \A c \in FailedFetches :
          LET task == reqs[c[1]].tasks[c[2]]
          IN  /\ task.observed = "returned"
              /\ task.status = "done"
              /\ task.sims = 1
              /\ task.result.weather.source = "simulated"

\* C17 happens: a request with a failed GET has been answered with that
\* cell's simulated observation
C17_FailedFetchSimulated ==
    \E c \in FailedFetches :
        /\ reqs[c[1]].status = 200
        /\ reqs[c[1]].tasks[c[2]].sims = 1

--------------------------------------------------------------------------
(* Properties: the simulated observation                                   *)

SimulatedObservation == sc.pc = "simulated"

\* C18 as stated: in every simulated observation, as returned (one decimal),
\* rainfall is zero unless the humidity exceeds 60, and then it is in [0, 5].
C18_StatedRainRule ==
    SimulatedObservation =>
        /\ sc.weather.humidity <= 6000 => sc.weather.rainfall = 0
        /\ 0 <= sc.weather.rainfall /\ sc.weather.rainfall <= 500

\* C18, amended: in every simulated observation, as returned, rainfall is
\* zero unless the humidity is at least 60, and then it is in [0, 5].
C18_RainOnlyFromSixty ==
    SimulatedObservation =>
        /\ sc.weather.humidity < 6000 => sc.weather.rainfall = 0
        /\ 0 <= sc.weather.rainfall /\ sc.weather.rainfall <= 500

\* C18 happens: an observation has been returned with humidity 60.0 and rain
C18_RainAtSixty ==
    /\ SimulatedObservation
    /\ sc.weather.humidity = 6000
    /\ sc.weather.rainfall > 0

\* the place of a feature in FEATURE_COLUMNS
FeaturePlace(name) == CHOOSE i \in 1..Len(FEATURE_COLUMNS) : FEATURE_COLUMNS[i] = name

\* C19: the top features of an explanation are the (at most) five entries of
\* the prediction's importance mapping with the largest values, in descending
\* order of value, entries of equal value in the order of FEATURE_COLUMNS.
C19_TopFeaturesSorted ==
    Explained =>
        LET importance == sc.prediction.feature_importance
            top        == sc.explanation.top_features
            listed     == {FeaturePlace(top[k][1]) : k \in 1..Len(top)}
        IN  /\ Len(top) = Min(5, Len(importance))
            /\ \A k \in 1..Len(top) :
                  /\ top[k][1] \in {FEATURE_COLUMNS[i] : i \in 1..Len(importance)}
                  /\ top[k][2] = importance[FeaturePlace(top[k][1])]
            /\ Cardinality(listed) = Len(top)
            /\ \A k \in 1..(Len(top) - 1) :
                  \/ top[k][2] > top[k + 1][2]
                  \/ /\ top[k][2] = top[k + 1][2]
                     /\ FeaturePlace(top[k][1]) < FeaturePlace(top[k + 1][1])
            /\ \A i \in (1..Len(importance)) \ listed :
                  \A k \in 1..Len(top) :
                      \/ importance[i] < top[k][2]
                      \/ /\ importance[i] = top[k][2]
                         /\ FeaturePlace(top[k][1]) < i

\* C19 happens: an explanation lists two features of equal importance, and
\* leaves out a feature as important as the last one listed
C19_EqualImportancesExplained ==
    /\ Explained
    /\ \E k \in 1..4 :
          sc.explanation.top_features[k][2] = sc.explanation.top_features[k + 1][2]
    /\ \E i \in 1..Len(sc.prediction.feature_importance) :
          /\ sc.prediction.feature_importance[i] = sc.explanation.top_features[5][2]
          /\ \A k \in 1..5 : sc.explanation.top_features[k][1] # FEATURE_COLUMNS[i]

--------------------------------------------------------------------------
(* Properties: the summary of an answered request                          *)

\* C20: in every region summary the category counts add up to total_grids,
\* the real and simulated provenance counts add up to total_grids, and
\* min_risk <= average_risk <= max_risk.
C20_SummaryCountsPartition ==
    \A r \in AnsweredPredictions :
        LET summary == reqs[r].summary
        IN  /\ summary.total_grids = Len(reqs[r].predictions)
            /\ summary.high_risk_count + summary.medium_risk_count
                  + summary.low_risk_count = summary.total_grids
            /\ summary.data_source.real + summary.data_source.simulated
                  = summary.total_grids
            /\ summary.min_risk <= summary.average_risk
            /\ summary.average_risk <= summary.max_risk

\* C20 happens: a request has been answered whose cells are partly live and
\* partly simulated, of more than one category and of different scores
C20_MixedRegionSummarised ==
    \E r \in AnsweredPredictions :
        /\ reqs[r].summary.data_source.real > 0
        /\ reqs[r].summary.data_source.simulated > 0
        /\ reqs[r].summary.high_risk_count > 0
        /\ reqs[r].summary.high_risk_count < reqs[r].summary.total_grids
        /\ reqs[r].summary.min_risk < reqs[r].summary.max_risk

--------------------------------------------------------------------------
(* Properties: the scorer-mode tag                                         *)

\* the assessment is what the classifier of self gives: its fire probability
\* and its importances
FromClassifier ==
    /\ sc.self.model.kind = "classifier"
    /\ sc.prediction.branch = "model"
    /\ sc.prediction.probability
         = RoundHalfEven(sc.self.model.proba[Len(sc.self.model.proba)], 100)
    /\ sc.prediction.feature_importance
         = [i \in 1..Len(FEATURE_COLUMNS) |->
               RoundHalfEven(sc.self.model.importances[i], 10)]

\* the assessment is what the rule-based formula gives, with the fixed
\* importances
FromRule ==
    /\ sc.prediction.branch = "fallback"
    /\ sc.prediction.probability = RoundHalfEven(RuleRisk(sc.weather), 100)
    /\ sc.prediction.feature_importance = FALLBACK_IMPORTANCE

\* C21 as stated: the scorer-mode tag of every assessment names the branch
\* that computed it: Random Forest exactly when score and importances came
\* from the classifier, Rule-based Fallback exactly when they came from the
\* rule, whatever the loader left in the model object.
C21_TagNamesBranch ==
    (Scored /\ ~sc.prediction.raised) =>
        /\ sc.prediction.model_type \in {"Random Forest", "Rule-based Fallback"}
        /\ sc.prediction.model_type = "Random Forest" <=> FromClassifier
        /\ sc.prediction.model_type = "Rule-based Fallback" <=> FromRule

============================================================================
